---------------------------- MODULE Spec2Model ----------------------------
(***************************************************************************)
(* A model of the MFT entry change tracker of RsWindowsThingies:           *)
(*   src/src/mft.rs            custom_entry_value, listen_mft,             *)
(*                             MftOutputBuffer, EntryListener              *)
(*   src/src/bin/listen_usn.rs main (mask option, output loop)             *)
(* JSON values (serde_json::Value) are tagged records: Obj(m) holds a      *)
(* function from key strings to values, Str(s) and Num(n) are leaves.      *)
(***************************************************************************)
EXTENDS Integers, Sequences, FiniteSets, TLC

VARIABLES
    \* ---- the volume and the journal source (collaborators) ----
    disk,            \* the record held by the monitored slot of the volume
    changes,         \* number of volume changes made so far (bounded)
    usn_rx,          \* queue of journal events from the journal worker to the tracker
    usn_closed,      \* the journal worker has dropped its sender
    \* ---- listen_mft (the tracker worker) ----
    pc,              \* position of the tracker worker
    previous_value,  \* the held previous snapshot
    cur_event,       \* the journal event taken by the last recv()
    tx,              \* queue of documents from the tracker to the output loop
    rx_dropped,      \* the receiving end of tx has been dropped
    \* ---- main's output loop ----
    pump_pc,         \* position of the output loop
    sink_kind,       \* "stdout" or "pipe" (opt_named_pipe)
    sink,            \* what has been written to the sink, in order
    \* ---- history of the run (read by the properties only) ----
    bound_seq,       \* generation of the monitored record when the listener was built
    initial_value,   \* the snapshot read at line 53
    base,            \* the record as it was on disk at the last snapshot read
    n_refresh,       \* refreshes completed
    last,            \* outcome of the last refresh
    missed,          \* a change was made after the initial read and before the subscription
    ev_log,          \* every event the journal worker queued, in order
    processed,       \* every event the tracker received, in order
    tx_log,          \* every document sent on tx, in order
    pump_log,        \* every document the output loop received, with its outcome
    queued_at_close, \* the events that were queued when the journal source was closed
    \* ---- custom_entry_value on its own ----
    entry,           \* the attribute results of a decoded entry
    entry_value,     \* the result of custom_entry_value
    \* ---- MftOutputBuffer::from_buffer on its own ----
    raw_buffer,      \* the bytes of the stream not yet read
    buf_pc,          \* position inside from_buffer
    buf_in,          \* the stream as given: identity bytes, length bytes, payload
    mft_buffer,      \* the fields read so far
    \* ---- main's mask option on its own ----
    mask_in,         \* the value given to --mask, a sequence of characters
    mask_pc,         \* position inside main's startup
    mask_opt         \* the parsed mask

mainVars  == <<disk, changes, usn_rx, usn_closed, pc, previous_value, cur_event, tx,
               rx_dropped, pump_pc, sink_kind, sink, bound_seq, initial_value, base,
               n_refresh, last, missed, ev_log, processed, tx_log, pump_log,
               queued_at_close>>
buildVars == <<entry, entry_value>>
bufVars   == <<raw_buffer, buf_pc, buf_in, mft_buffer>>
maskVars  == <<mask_in, mask_pc, mask_opt>>
vars      == <<mainVars, buildVars, bufVars, maskVars>>

----------------------------------------------------------------------------
(* Bounds of the model *)

\* longest attribute list of an entry
MaxAttrs == 2
\* volume changes in one run
MaxChanges == 2
\* longest payload of a raw record stream
MaxPayload == 3
\* longest mask string enumerated over the whole alphabet
MaxMaskLen == 3

----------------------------------------------------------------------------
(* serde_json::Value *)

Obj(m)  == [t |-> "obj", m |-> m]
Str(s)  == [t |-> "str", s |-> s]
Num(n)  == [t |-> "num", n |-> n]
EmptyMap == [k \in {} |-> 0]

\* json!({})
EmptyObj == Obj(EmptyMap)

IsObject(v) == v.t = "obj"

\* value[key] = x on an object: the key is inserted or its value replaced
SetKey(v, k, x) == Obj([y \in (DOMAIN v.m) \cup {k} |-> IF y = k THEN x ELSE v.m[y]])

Digit(d) == CASE d = 0 -> "0" [] d = 1 -> "1" [] d = 2 -> "2" [] d = 3 -> "3"
              [] d = 4 -> "4" [] d = 5 -> "5" [] d = 6 -> "6" [] d = 7 -> "7"
              [] d = 8 -> "8" [] d = 9 -> "9"

RECURSIVE to_string(_)
\* u16::to_string: the decimal digits of n
to_string(n) == IF n < 10 THEN Digit(n) ELSE to_string(n \div 10) \o Digit(n % 10)

----------------------------------------------------------------------------
(* Decoded entries *)

AttrTypes  == {"FileName", "DATA"}
Instances  == {0, 1}
AttrValues == {"a", "b"}

\* one result of entry.iter_attributes(): Ok(attribute) or Err
AttrResults == [ok : BOOLEAN, type_code : AttrTypes, instance : Instances, data : AttrValues]

\* get_attr_name: the name of a type code
get_attr_name(type_code) ==
    CASE type_code = "FileName" -> "FileName"
      [] type_code = "DATA" -> "DATA"

\* to_value(&attribute): the attribute's own payload
AttrToValue(a) == Str(a.data)

\* to_value(&entry.header)
HeaderToValue(h) == Obj([sequence |-> Num(h.sequence), flags |-> Num(h.flags)])

\* OkAttributes without the filter: a result that failed is kept as an attribute
AllAttributes(results) == results

\* filter_map(Result::ok): the attributes that parsed, in order
OkAttributes(results) == SelectSeq(results, LAMBDA r : r.ok)

\* one turn of the loop over the attributes (mft.rs 41-46)
InsertAttribute(ev, a) ==
    SetKey(ev, "attributes",
           SetKey(ev.m["attributes"], get_attr_name(a.type_code),
                  Obj(to_string(a.instance) :> AttrToValue(a))))

RECURSIVE InsertAll(_, _)
InsertAll(ev, attrs) ==
    IF attrs = <<>> THEN ev ELSE InsertAll(InsertAttribute(ev, Head(attrs)), Tail(attrs))

\* custom_entry_value: the snapshot of a decoded entry
custom_entry_value(header, results) ==
    LET ev0 == SetKey(SetKey(EmptyObj, "header", HeaderToValue(header)),
                      "attributes", EmptyObj)
    IN  [ok |-> TRUE, value |-> InsertAll(ev0, OkAttributes(results))]

----------------------------------------------------------------------------
(* The snapshot differ (crate::utils::json, section 4.4 of the design) *)

RECURSIVE get_difference_value(_, _)
\* for every path of new_value that is absent from old_value or holds another
\* value there, the value of new_value at that path; nothing else
get_difference_value(old_value, new_value) ==
    LET changed == {k \in DOMAIN new_value.m :
                        k \notin DOMAIN old_value.m \/ old_value.m[k] # new_value.m[k]}
        sub(k)  == IF k \in DOMAIN old_value.m /\ IsObject(old_value.m[k])
                      /\ IsObject(new_value.m[k])
                   THEN get_difference_value(old_value.m[k], new_value.m[k])
                   ELSE new_value.m[k]
        kept    == {k \in changed : sub(k) # EmptyObj \/ new_value.m[k] = EmptyObj}
    IN  Obj([k \in kept |-> sub(k)])

----------------------------------------------------------------------------
(* The volume: the record of the monitored slot, and the journal source *)

\* EntryListener.entry_to_monitor: the slot index get_entry_from_path resolved
entry_to_monitor == 7
\* the slot of some other file of the volume
other_entry == entry_to_monitor + 1

Attr(ty, inst, d) == [ok |-> TRUE, type_code |-> ty, instance |-> inst, data |-> d]

\* the records the monitored slot may hold when the listener is built
InitAttrs == { <<Attr("FileName", 0, "a")>>,
               <<Attr("DATA", 0, "a"), Attr("DATA", 1, "a")>> }

\* the attributes a later change may add, and the record of a file that reuses the slot
AddedAttrs  == { Attr("DATA", 1, "b"), [Attr("DATA", 0, "b") EXCEPT !.ok = FALSE] }
ReusedAttrs == <<Attr("FileName", 0, "b")>>

HeaderOf(d) == [sequence |-> d.sequence, flags |-> d.flags]

\* a journal event: usn_entry_value["file_reference"] and its ordering number
Event(e, s, n) == [entry |-> e, sequence |-> s, usn |-> n]
NoEvent == Event(0, 0, 0)

NoRecord  == [sequence |-> 0, flags |-> 0, attrs |-> <<>>]
NoRefresh == [outcome |-> "none", previous |-> EmptyObj, current |-> EmptyObj,
              from |-> NoRecord, read |-> NoRecord]

TrackerAlive == pc \in {"init", "subscribe", "watching", "refreshing"}
ProcessAlive == pump_pc # "panicked"
Subscribed   == pc \in {"watching", "refreshing"}

\* the journal worker publishes the event of a change once the tracker has subscribed
Publish(e, s) ==
    IF Subscribed /\ ~usn_closed
    THEN /\ usn_rx' = Append(usn_rx, Event(e, s, changes + 1))
         /\ ev_log' = Append(ev_log, Event(e, s, changes + 1))
    ELSE UNCHANGED <<usn_rx, ev_log>>

\* a change of the monitored record, made while the tracker runs: disk becomes d
ChangeRecord(d) ==
    /\ ProcessAlive /\ TrackerAlive
    /\ changes < MaxChanges
    /\ d # disk
    /\ disk' = d
    /\ changes' = changes + 1
    /\ Publish(entry_to_monitor, d.sequence)
    /\ missed' = (missed \/ pc = "subscribe")
    /\ UNCHANGED <<usn_closed, pc, previous_value, cur_event, tx, rx_dropped, pump_pc,
                   sink_kind, sink, bound_seq, initial_value, base, n_refresh, last, processed,
                   tx_log, pump_log>>
    /\ UNCHANGED <<buildVars, bufVars, maskVars, queued_at_close>>

\* an attribute's payload is rewritten
SetData == \E i \in 1..Len(disk.attrs), v \in AttrValues :
    ChangeRecord([disk EXCEPT !.attrs[i].data = v])

\* a header field is rewritten
SetFlags == ChangeRecord([disk EXCEPT !.flags = 1 - disk.flags])

\* an attribute is added to the record
AddAttribute == \E a \in AddedAttrs :
    /\ Len(disk.attrs) < MaxAttrs
    /\ \A i \in 1..Len(disk.attrs) :
          <<disk.attrs[i].type_code, disk.attrs[i].instance>> # <<a.type_code, a.instance>>
    /\ ChangeRecord([disk EXCEPT !.attrs = Append(disk.attrs, a)])

\* the last attribute of the record is removed
RemoveAttribute ==
    /\ Len(disk.attrs) > 1
    /\ ChangeRecord([disk EXCEPT !.attrs = SubSeq(disk.attrs, 1, Len(disk.attrs) - 1)])

\* the file is deleted and its slot given to a new file: the generation moves on
ReuseSlot ==
    /\ disk.sequence = bound_seq
    /\ ChangeRecord([sequence |-> disk.sequence + 1, flags |-> 0, attrs |-> ReusedAttrs])

\* some other file of the volume changes
OtherFileChange ==
    /\ ProcessAlive /\ TrackerAlive
    /\ changes < MaxChanges
    /\ changes' = changes + 1
    /\ Publish(other_entry, 1)
    /\ UNCHANGED <<disk, usn_closed, pc, previous_value, cur_event, tx, rx_dropped,
                   pump_pc, sink_kind, sink, bound_seq, initial_value, base, n_refresh, last, missed,
                   processed, tx_log, pump_log>>
    /\ UNCHANGED <<buildVars, bufVars, maskVars, queued_at_close>>

\* the journal source is closed: its worker ends and drops the sender of usn_rx
CloseJournal ==
    /\ ProcessAlive /\ Subscribed /\ ~usn_closed
    /\ usn_closed' = TRUE
    /\ queued_at_close' = usn_rx
    /\ UNCHANGED <<disk, changes, usn_rx, pc, previous_value, cur_event, tx, rx_dropped,
                   pump_pc, sink_kind, sink, bound_seq, initial_value, base, n_refresh, last, missed,
                   ev_log, processed, tx_log, pump_log>>
    /\ UNCHANGED <<buildVars, bufVars, maskVars>>

----------------------------------------------------------------------------
(* listen_mft: the tracker worker *)

\* EntryListener::get_current_value when the raw read succeeds
get_current_value == custom_entry_value(HeaderOf(disk), disk.attrs).value

\* the filter of the loop (mft.rs 74-78): the event concerns the monitored entry
Matches(e) == e.entry = entry_to_monitor

\* ShouldSend without the is_empty test
ShouldSendAnyObject(difference_value) == IsObject(difference_value)

\* the test around tx.send (mft.rs 86-87)
ShouldSend(difference_value) ==
    IsObject(difference_value) /\ DOMAIN difference_value.m # {}

\* Recv taking the newest message instead of the oldest
RecvNewest(q) == [msg |-> q[Len(q)], rest |-> SubSeq(q, 1, Len(q) - 1)]

\* Receiver::recv on a queue that holds a message: the oldest one is taken
Recv(q) == [msg |-> Head(q), rest |-> Tail(q)]

\* mft.rs 53: the initial snapshot is read and held; it is not sent
InitialRead ==
    /\ ProcessAlive /\ pc = "init"
    /\ \E read_ok \in BOOLEAN :
          IF read_ok
          THEN /\ previous_value' = get_current_value
               /\ initial_value' = get_current_value
               /\ base' = disk
               /\ pc' = "subscribe"
          ELSE /\ pc' = "error"
               /\ UNCHANGED <<previous_value, initial_value, base>>
    /\ UNCHANGED <<disk, changes, usn_rx, usn_closed, cur_event, tx, rx_dropped, pump_pc,
                   sink_kind, sink, bound_seq, n_refresh, last, missed, ev_log, processed,
                   tx_log, pump_log>>
    /\ UNCHANGED <<buildVars, bufVars, maskVars, queued_at_close>>

\* mft.rs 63-66: the journal subscription is established
Subscribe ==
    /\ ProcessAlive /\ pc = "subscribe"
    /\ \E listen_ok \in BOOLEAN : pc' = IF listen_ok THEN "watching" ELSE "error"
    /\ UNCHANGED <<disk, changes, usn_rx, usn_closed, previous_value, cur_event, tx,
                   rx_dropped, pump_pc, sink_kind, sink, bound_seq, initial_value, base, n_refresh, last,
                   missed, ev_log, processed, tx_log, pump_log>>
    /\ UNCHANGED <<buildVars, bufVars, maskVars, queued_at_close>>

\* mft.rs 69-78: an event is received; one for another entry is dropped
RecvEvent ==
    /\ ProcessAlive /\ pc = "watching"
    /\ usn_rx # <<>>
    /\ LET usn_entry_value == Recv(usn_rx).msg
       IN  /\ cur_event' = usn_entry_value
           /\ processed' = Append(processed, usn_entry_value)
           /\ usn_rx' = Recv(usn_rx).rest
           /\ pc' = IF Matches(usn_entry_value) THEN "refreshing" ELSE "watching"
    /\ UNCHANGED <<disk, changes, usn_closed, previous_value, tx, rx_dropped, pump_pc,
                   sink_kind, sink, bound_seq, initial_value, base, n_refresh, last, missed, ev_log,
                   tx_log, pump_log>>
    /\ UNCHANGED <<buildVars, bufVars, maskVars, queued_at_close>>

\* Disconnected as soon as the sender is gone, whatever the queue still holds
DisconnectedAtOnce ==
    /\ ProcessAlive /\ pc = "watching"
    /\ usn_closed
    /\ pc' = "panicked"
    /\ UNCHANGED <<disk, changes, usn_rx, usn_closed, previous_value, cur_event, tx,
                   rx_dropped, pump_pc, sink_kind, sink, bound_seq, initial_value, base, n_refresh, last,
                   missed, ev_log, processed, tx_log, pump_log>>
    /\ UNCHANGED <<buildVars, bufVars, maskVars, queued_at_close>>

\* mft.rs 69-72: recv fails on the closed and drained queue; the worker panics
Disconnected ==
    /\ ProcessAlive /\ pc = "watching"
    /\ usn_rx = <<>> /\ usn_closed
    /\ pc' = "panicked"
    /\ UNCHANGED <<disk, changes, usn_rx, usn_closed, previous_value, cur_event, tx,
                   rx_dropped, pump_pc, sink_kind, sink, bound_seq, initial_value, base, n_refresh, last,
                   missed, ev_log, processed, tx_log, pump_log>>
    /\ UNCHANGED <<buildVars, bufVars, maskVars, queued_at_close>>

\* AfterSend where an error of tx.send ends the worker
AfterSendFatal(outcome) == IF outcome = "send_failed" THEN "panicked" ELSE "watching"

\* mft.rs 88-97: both arms of the match on tx.send, and the branch without a send,
\* fall through to the end of the loop body: the worker waits for the next event
AfterSend(outcome) == "watching"

\* Held where the held snapshot is never replaced
HeldKept(difference_value, previous, current) == previous

\* mft.rs 86 and 96: the snapshot held after a refresh: the fresh one whenever the
\* difference is an object, sent or not
Held(difference_value, previous, current) ==
    IF IsObject(difference_value) THEN current ELSE previous

\* mft.rs 80-97: the record is read again, compared with the held snapshot, the
\* difference sent when it has keys, and the held snapshot replaced
Refresh ==
    /\ ProcessAlive /\ pc = "refreshing"
    /\ \E read_ok \in BOOLEAN :
          IF ~read_ok
          THEN /\ pc' = "panicked"
               /\ UNCHANGED <<previous_value, tx, base, n_refresh, last, tx_log>>
          ELSE LET current_value == get_current_value
                   difference_value == get_difference_value(previous_value, current_value)
                   outcome == IF ~ShouldSend(difference_value) THEN "empty"
                              ELSE IF rx_dropped THEN "send_failed" ELSE "sent"
               IN  /\ IF outcome = "sent"
                      THEN /\ tx' = Append(tx, difference_value)
                           /\ tx_log' = Append(tx_log, difference_value)
                      ELSE UNCHANGED <<tx, tx_log>>
                   /\ last' = [outcome |-> outcome, previous |-> previous_value,
                               current |-> current_value, from |-> base, read |-> disk]
                   /\ previous_value' = Held(difference_value, previous_value, current_value)
                   /\ base' = IF IsObject(difference_value) THEN disk ELSE base
                   /\ n_refresh' = n_refresh + 1
                   /\ pc' = AfterSend(outcome)
    /\ UNCHANGED <<disk, changes, usn_rx, usn_closed, cur_event, rx_dropped, pump_pc,
                   sink_kind, sink, bound_seq, initial_value, missed, ev_log, processed, pump_log>>
    /\ UNCHANGED <<buildVars, bufVars, maskVars, queued_at_close>>

----------------------------------------------------------------------------
(* main: the output loop (listen_usn.rs 108-128) *)

\* serde_json::to_string(&value): the text of one document
to_json_string(value) == <<"json", value>>
\* the line terminator println! adds
Newline == <<"\n">>

\* listen_usn.rs 118-126: what one written record adds to the sink (a write that
\* succeeds is taken to write the whole record)
Written(kind, value_str) ==
    IF kind = "pipe" THEN <<value_str>> ELSE <<value_str, Newline>>

\* the sender of tx is gone: the tracker worker has ended
TxClosed == ~TrackerAlive

\* AfterDocument where a document that cannot be serialized ends the loop too
AfterDocumentFatal(outcome) == IF outcome = "written" THEN "recv" ELSE "panicked"

\* listen_usn.rs 110-126: where the loop is after one document: the Err arm of
\* to_string ends in continue, the expect on the write aborts the process
AfterDocument(outcome) == IF outcome = "write_failed" THEN "panicked" ELSE "recv"

\* one document is received, serialized and written; a document that cannot be
\* serialized is skipped; a failed write aborts the process
PumpRecv ==
    /\ pump_pc \in {"recv", "spin"}
    /\ tx # <<>>
    /\ LET value == Recv(tx).msg
       IN  /\ tx' = Recv(tx).rest
           /\ \E outcome \in {"written", "skipped", "write_failed"} :
                 /\ pump_log' = Append(pump_log, [value |-> value, outcome |-> outcome])
                 /\ sink' = IF outcome = "written"
                            THEN sink \o Written(sink_kind, to_json_string(value))
                            ELSE sink
                 /\ pump_pc' = AfterDocument(outcome)
    /\ UNCHANGED <<disk, changes, usn_rx, usn_closed, pc, previous_value, cur_event,
                   rx_dropped, sink_kind, bound_seq, initial_value, base, n_refresh, last, missed,
                   ev_log, processed, tx_log>>
    /\ UNCHANGED <<buildVars, bufVars, maskVars, queued_at_close>>

\* recv fails on the closed and drained queue: the for loop runs no turn and the
\* outer loop calls recv again
PumpSpin ==
    /\ pump_pc \in {"recv", "spin"}
    /\ tx = <<>> /\ TxClosed
    /\ pump_pc' = "spin"
    /\ UNCHANGED <<disk, changes, usn_rx, usn_closed, pc, previous_value, cur_event, tx,
                   rx_dropped, sink_kind, sink, bound_seq, initial_value, base, n_refresh, last, missed,
                   ev_log, processed, tx_log, pump_log>>
    /\ UNCHANGED <<buildVars, bufVars, maskVars, queued_at_close>>

\* the caller of listen_to_file drops the receiver instead of draining it, before
\* anything was sent
DropReceiver ==
    /\ pump_pc = "recv" /\ ~rx_dropped
    /\ pc = "watching" /\ tx_log = <<>>
    /\ rx_dropped' = TRUE
    /\ tx' = <<>>
    /\ pump_pc' = "dropped"
    /\ UNCHANGED <<disk, changes, usn_rx, usn_closed, pc, previous_value, cur_event,
                   sink_kind, sink, bound_seq, initial_value, base, n_refresh, last, missed, ev_log,
                   processed, tx_log, pump_log>>
    /\ UNCHANGED <<buildVars, bufVars, maskVars, queued_at_close>>

----------------------------------------------------------------------------
(* The specifications *)

NoEntry == [done |-> FALSE, result |-> [ok |-> FALSE, value |-> EmptyObj]]

BuildIdle == entry = <<>> /\ entry_value = NoEntry
NoBuffer  == [file_reference_number |-> [entry |-> 0, sequence |-> 0],
              file_record_length |-> 0, file_record_buffer |-> <<>>]
NoStream  == [identity |-> <<>>, length |-> <<>>, payload |-> <<>>]
NoMask    == [some |-> FALSE, m |-> <<>>]
NoMaskOpt == [some |-> FALSE, v |-> [hi |-> 0, lo |-> 0]]

BufIdle   == raw_buffer = <<>> /\ buf_pc = "idle" /\ buf_in = NoStream
             /\ mft_buffer = NoBuffer
MaskIdle  == mask_in = NoMask /\ mask_pc = "idle" /\ mask_opt = NoMaskOpt

MainInit ==
    /\ disk \in [sequence : {1}, flags : {0}, attrs : InitAttrs]
    /\ changes = 0
    /\ usn_rx = <<>> /\ usn_closed = FALSE
    /\ pc = "init"
    /\ previous_value = EmptyObj
    /\ cur_event = NoEvent
    /\ tx = <<>> /\ rx_dropped = FALSE
    /\ pump_pc = "recv"
    /\ sink_kind \in {"stdout", "pipe"}
    /\ sink = <<>>
    /\ bound_seq = disk.sequence
    /\ initial_value = EmptyObj
    /\ base = disk
    /\ n_refresh = 0
    /\ last = NoRefresh
    /\ missed = FALSE
    /\ ev_log = <<>> /\ processed = <<>> /\ tx_log = <<>> /\ pump_log = <<>>
    /\ queued_at_close = <<>>

\* the tracker, the volume and the output loop at rest
MainIdle ==
    /\ disk = [sequence |-> 1, flags |-> 0, attrs |-> <<>>]
    /\ changes = 0
    /\ usn_rx = <<>> /\ usn_closed = FALSE
    /\ pc = "idle"
    /\ previous_value = EmptyObj
    /\ cur_event = NoEvent
    /\ tx = <<>> /\ rx_dropped = FALSE
    /\ pump_pc = "idle"
    /\ sink_kind = "stdout"
    /\ sink = <<>>
    /\ bound_seq = 1
    /\ initial_value = EmptyObj
    /\ base = disk
    /\ n_refresh = 0
    /\ last = NoRefresh
    /\ missed = FALSE
    /\ ev_log = <<>> /\ processed = <<>> /\ tx_log = <<>> /\ pump_log = <<>>
    /\ queued_at_close = <<>>

Init == MainInit /\ BuildIdle /\ BufIdle /\ MaskIdle

Next ==
    \/ SetData \/ SetFlags \/ AddAttribute \/ RemoveAttribute \/ ReuseSlot
    \/ OtherFileChange \/ CloseJournal
    \/ InitialRead \/ Subscribe \/ RecvEvent \/ Disconnected \/ Refresh
    \/ PumpRecv \/ PumpSpin \/ DropReceiver

Spec == Init /\ [][Next]_vars

----------------------------------------------------------------------------
(* custom_entry_value over every entry of at most MaxAttrs attribute results *)

RECURSIVE SeqsUpTo(_, _)
\* the sequences over S of length at most n
SeqsUpTo(S, n) ==
    IF n = 0 THEN {<<>>}
    ELSE LET shorter == SeqsUpTo(S, n - 1)
         IN  shorter \cup {Append(q, x) : q \in shorter, x \in S}

BuildHeader == [sequence |-> 1, flags |-> 0]

BuildInit ==
    /\ entry \in SeqsUpTo(AttrResults, MaxAttrs)
    /\ entry_value = NoEntry

\* the snapshot of the entry is built
Build ==
    /\ ~entry_value.done
    /\ mask_pc = "idle" /\ buf_pc = "idle" /\ pc = "idle"
    /\ entry_value' = [done |-> TRUE, result |-> custom_entry_value(BuildHeader, entry)]
    /\ UNCHANGED <<entry, mainVars, bufVars, maskVars>>

InitBuild == MainIdle /\ BuildInit /\ BufIdle /\ MaskIdle

SpecBuild == InitBuild /\ [][Build]_vars

----------------------------------------------------------------------------
(* MftOutputBuffer::from_buffer over bounded streams *)

RECURSIVE LittleEndian(_)
\* the unsigned integer whose little-endian bytes are given
LittleEndian(bytes) ==
    IF bytes = <<>> THEN 0 ELSE Head(bytes) + 256 * LittleEndian(Tail(bytes))

\* the first n elements of q, and what follows them
Take(q, n) == SubSeq(q, 1, n)
Drop(q, n) == SubSeq(q, n + 1, Len(q))

\* a u64 file reference number, held as its 48-bit entry and its 16-bit sequence
Reference(bytes) ==
    [entry |-> LittleEndian(Take(bytes, 6)), sequence |-> LittleEndian(Drop(bytes, 6))]

\* read_exact into a buffer of n bytes: the next n bytes of the stream, or an
\* error when the stream holds fewer
read_exact(stream, n) ==
    IF Len(stream) < n
    THEN [ok |-> FALSE, bytes |-> <<>>, rest |-> stream]
    ELSE [ok |-> TRUE, bytes |-> Take(stream, n), rest |-> Drop(stream, n)]

PayloadBytes  == {0, 255}
IdentityBytes == { <<7, 0, 0, 0, 0, 0, 1, 0>>, <<8, 0, 0, 0, 0, 0, 2, 0>> }
\* the declared lengths: the small ones, and one whose second byte is set
LengthBytes   == {<<n, 0, 0, 0>> : n \in 0..MaxPayload} \cup {<<0, 1, 0, 0>>}

\* the streams given to from_buffer: whole ones, and ones cut inside the header
Streams ==
    [identity : IdentityBytes, length : LengthBytes,
     payload : SeqsUpTo(PayloadBytes, MaxPayload)]
    \cup {[identity |-> Take(<<7, 0, 0, 0, 0, 0, 1, 0>>, n), length |-> <<>>,
           payload |-> <<>>] : n \in 0..7}
    \cup {[identity |-> <<7, 0, 0, 0, 0, 0, 1, 0>>, length |-> Take(<<1, 0, 0, 0>>, n),
           payload |-> <<>>] : n \in 0..3}

BufInit ==
    /\ buf_in \in Streams
    /\ raw_buffer = buf_in.identity \o buf_in.length \o buf_in.payload
    /\ buf_pc = "read_u64"
    /\ mft_buffer = NoBuffer

\* mft.rs 109: read_u64::<LittleEndian>
ReadReference ==
    /\ buf_pc = "read_u64"
    /\ LET r == read_exact(raw_buffer, 8)
       IN  /\ raw_buffer' = r.rest
           /\ buf_pc' = IF r.ok THEN "read_u32" ELSE "err"
           /\ mft_buffer' = IF r.ok
                            THEN [mft_buffer EXCEPT
                                    !.file_reference_number = Reference(r.bytes)]
                            ELSE mft_buffer
    /\ UNCHANGED <<buf_in, mainVars, buildVars, maskVars>>

\* mft.rs 110: read_u32::<LittleEndian>
ReadLength ==
    /\ buf_pc = "read_u32"
    /\ LET r == read_exact(raw_buffer, 4)
       IN  /\ raw_buffer' = r.rest
           /\ buf_pc' = IF r.ok THEN "read_exact" ELSE "err"
           /\ mft_buffer' = IF r.ok
                            THEN [mft_buffer EXCEPT
                                    !.file_record_length = LittleEndian(r.bytes)]
                            ELSE mft_buffer
    /\ UNCHANGED <<buf_in, mainVars, buildVars, maskVars>>

\* mft.rs 111-119: a buffer of file_record_length bytes is filled from the stream
ReadRecord ==
    /\ buf_pc = "read_exact"
    /\ LET r == read_exact(raw_buffer, mft_buffer.file_record_length)
       IN  /\ raw_buffer' = r.rest
           /\ buf_pc' = IF r.ok THEN "ok" ELSE "err"
           /\ mft_buffer' = IF r.ok
                            THEN [mft_buffer EXCEPT !.file_record_buffer = r.bytes]
                            ELSE mft_buffer
    /\ UNCHANGED <<buf_in, mainVars, buildVars, maskVars>>

InitBuf == MainIdle /\ BuildIdle /\ BufInit /\ MaskIdle

NextBuf == ReadReference \/ ReadLength \/ ReadRecord

SpecBuf == InitBuf /\ [][NextBuf]_vars

----------------------------------------------------------------------------
(* main's mask option (listen_usn.rs 75-106) over bounded strings *)

\* a u32 is held as its two 16-bit halves, hi * HalfWord + lo
HalfWord == 65536
U32(hi, lo) == [hi |-> hi, lo |-> lo]

MaskChars == {"0", "1", "9", "x", "F", "+", "g"}

\* char::to_digit: the value of a digit character, or -1
to_digit(c, radix) ==
    LET v == CASE c = "0" -> 0 [] c = "1" -> 1 [] c = "2" -> 2 [] c = "4" -> 4
               [] c = "5" -> 5 [] c = "6" -> 6 [] c = "7" -> 7 [] c = "9" -> 9
               [] c = "F" -> 15 [] OTHER -> -1
    IN  IF v < radix THEN v ELSE -1

\* str::starts_with("0x")
starts_with_0x(m) == Len(m) >= 2 /\ m[1] = "0" /\ m[2] = "x"

RECURSIVE trim_start_matches_0x(_)
\* str::trim_start_matches("0x"): every leading repetition of the pattern is removed
trim_start_matches_0x(m) ==
    IF starts_with_0x(m) THEN trim_start_matches_0x(Drop(m, 2)) ELSE m

\* acc * radix + d, checked: an error when the result does not fit a u32
CheckedMulAdd(acc, radix, d) ==
    LET lo == acc.lo * radix + d
        hi == acc.hi * radix + (lo \div HalfWord)
    IN  [ok |-> hi < HalfWord, v |-> U32(hi % HalfWord, lo % HalfWord)]

RECURSIVE Accumulate(_, _, _)
\* the digits of src folded into acc, with the overflow check of a u32
Accumulate(src, radix, acc) ==
    IF src = <<>> THEN [ok |-> TRUE, v |-> acc]
    ELSE LET d == to_digit(Head(src), radix)
             next == CheckedMulAdd(acc, radix, IF d < 0 THEN 0 ELSE d)
         IN  IF d < 0 \/ ~next.ok
             THEN [ok |-> FALSE, v |-> U32(0, 0)]
             ELSE Accumulate(Tail(src), radix, next.v)

\* u32::from_str_radix: an optional plus sign, then at least one digit
from_str_radix(src, radix) ==
    LET digits == IF src # <<>> /\ Head(src) = "+" THEN Tail(src) ELSE src
    IN  IF digits = <<>> THEN [ok |-> FALSE, v |-> U32(0, 0)]
        ELSE Accumulate(digits, radix, U32(0, 0))

\* listen_usn.rs 77-82: the mask of the string m
ParseMaskString(m) ==
    IF starts_with_0x(m)
    THEN from_str_radix(trim_start_matches_0x(m), 16)
    ELSE from_str_radix(m, 10)

\* strings longer than MaxMaskLen that reach the limits of a u32 and the prefix
LongMasks ==
    { <<"0", "x", "0", "x", "1", "0">>,
      <<"4", "2", "9", "4", "9", "6", "7", "2", "9", "5">>,
      <<"4", "2", "9", "4", "9", "6", "7", "2", "9", "6">>,
      <<"0", "x", "F", "F", "F", "F", "F", "F", "F", "F">>,
      <<"0", "x", "1", "0", "0", "0", "0", "0", "0", "0", "0">> }

MaskInit ==
    /\ mask_in \in {NoMask} \cup
                  [some : {TRUE}, m : SeqsUpTo(MaskChars, MaxMaskLen) \cup LongMasks]
    /\ mask_pc = "start"
    /\ mask_opt = NoMaskOpt

\* listen_usn.rs 75-85: the option is parsed; expect panics on a failed parse
ParseMask ==
    /\ mask_pc = "start"
    /\ IF ~mask_in.some
       THEN mask_pc' = "parsed" /\ mask_opt' = NoMaskOpt
       ELSE LET r == ParseMaskString(mask_in.m)
            IN  IF r.ok
                THEN mask_pc' = "parsed" /\ mask_opt' = [some |-> TRUE, v |-> r.v]
                ELSE mask_pc' = "panicked" /\ mask_opt' = NoMaskOpt
    /\ UNCHANGED <<mask_in, mainVars, buildVars, bufVars>>

\* listen_usn.rs 87-106: the configuration is built and the listener created
CreateListener ==
    /\ mask_pc = "parsed"
    /\ mask_pc' = "listening"
    /\ UNCHANGED <<mask_in, mask_opt, mainVars, buildVars, bufVars>>

InitMask == MainIdle /\ BuildIdle /\ BufIdle /\ MaskInit

NextMask == ParseMask \/ CreateListener

SpecMask == InitMask /\ [][NextMask]_vars

----------------------------------------------------------------------------
(* Properties *)

\* the attributes object of a snapshot
AttributesOf(value) == value.m["attributes"].m

\* the snapshot holds the attribute a under its type and its instance
Addressable(value, a) ==
    /\ get_attr_name(a.type_code) \in DOMAIN AttributesOf(value)
    /\ to_string(a.instance) \in DOMAIN AttributesOf(value)[get_attr_name(a.type_code)].m
    /\ AttributesOf(value)[get_attr_name(a.type_code)].m[to_string(a.instance)]
          = AttrToValue(a)

\* no two results of the entry share a type and an instance
DistinctInstances(results) ==
    \A i, j \in 1..Len(results) :
        i # j => <<results[i].type_code, results[i].instance>>
                    # <<results[j].type_code, results[j].instance>>

\* two results of the entry share a type
MultiInstance(results) ==
    \E i, j \in 1..Len(results) : i # j /\ results[i].type_code = results[j].type_code

\* C1: the tracker refreshes only for an event whose identity is exactly the bound
\* one: an event with the monitored slot index and another generation triggers no
\* refresh.
C1_IdentityFilter ==
    pc = "refreshing" =>
        /\ cur_event.entry = entry_to_monitor
        /\ cur_event.sequence = bound_seq

\* C2: no document without keys is ever sent on the output queue, and a refresh
\* whose fresh snapshot equals the held one sends nothing.
C2_NoEmptyDocument ==
    /\ \A i \in 1..Len(tx_log) : IsObject(tx_log[i]) /\ DOMAIN tx_log[i].m # {}
    /\ \A i \in 1..Len(tx) : DOMAIN tx[i].m # {}
    /\ (last.outcome # "none" /\ last.current = last.previous) => last.outcome = "empty"

\* a refresh found the record unchanged and nothing was sent for it
C2_Witness ==
    /\ pc = "watching" /\ n_refresh >= 1
    /\ last.current = last.previous /\ last.outcome = "empty"
    /\ tx_log = <<>>

\* C3: when an entry holds several attributes of one type under different instance
\* identifiers, the snapshot holds every one of them under its own instance key,
\* with its own value.
C3_MultiInstance ==
    (entry_value.done /\ MultiInstance(entry) /\ DistinctInstances(entry)
        /\ \A i \in 1..Len(entry) : entry[i].ok)
    => \A i \in 1..Len(entry) : Addressable(entry_value.result.value, entry[i])

\* the record r2 is the record r1 with the payload of its attribute i rewritten
OneValueChanged(r1, r2, i) ==
    /\ r1.sequence = r2.sequence /\ r1.flags = r2.flags
    /\ Len(r1.attrs) = Len(r2.attrs)
    /\ i \in 1..Len(r1.attrs)
    /\ r1.attrs[i].ok
    /\ r1.attrs[i].data # r2.attrs[i].data
    /\ r2.attrs = [r1.attrs EXCEPT ![i].data = r2.attrs[i].data]

\* the document that holds the path of attribute a alone
SinglePath(a) ==
    Obj("attributes" :>
        Obj(get_attr_name(a.type_code) :> Obj(to_string(a.instance) :> AttrToValue(a))))

\* C4: the initial snapshot is never sent; and when the first refresh comes after
\* the payload of exactly one attribute instance was rewritten, exactly one
\* document is sent, holding the path of that instance with its new value alone.
C4_SingleChangeDelta ==
    /\ n_refresh = 0 => tx_log = <<>>
    /\ \A i \in 1..Len(tx_log) : tx_log[i] # initial_value
    /\ \A i \in 1..Len(last.from.attrs) :
          (n_refresh = 1 /\ ~rx_dropped /\ DistinctInstances(last.from.attrs)
              /\ OneValueChanged(last.from, last.read, i))
          => tx_log = <<SinglePath(last.read.attrs[i])>>

\* the stream holds a whole identity and a whole length
WholeHeader(stream) == Len(stream.identity) = 8 /\ Len(stream.length) = 4

\* C5: from_buffer on an identity, a declared length L and k payload bytes succeeds
\* if and only if k = L, and the record buffer it yields is the payload itself.
C5_ExactLength ==
    (buf_pc \in {"ok", "err"} /\ WholeHeader(buf_in))
    => /\ (buf_pc = "ok") <=> (Len(buf_in.payload) = LittleEndian(buf_in.length))
       /\ buf_pc = "ok" => mft_buffer.file_record_buffer = buf_in.payload

\* q without its element i
RemoveAt(q, i) == SubSeq(q, 1, i - 1) \o SubSeq(q, i + 1, Len(q))

\* i is the one result of the entry that failed to parse
OnlyFailure(results, i) ==
    /\ i \in 1..Len(results)
    /\ \A j \in 1..Len(results) : results[j].ok <=> j # i

\* every leaf of the snapshot is the value of an attribute that parsed
FromParsedOnly(value, results) ==
    \A ty \in DOMAIN AttributesOf(value) :
        \A k \in DOMAIN AttributesOf(value)[ty].m :
            \E j \in 1..Len(results) :
                /\ results[j].ok
                /\ get_attr_name(results[j].type_code) = ty
                /\ to_string(results[j].instance) = k
                /\ AttrToValue(results[j]) = AttributesOf(value)[ty].m[k]

\* C6: with one unparsable attribute among parsable ones, at any position,
\* custom_entry_value succeeds and gives the snapshot of the parsable attributes
\* alone: the one it gives for the entry without the unparsable attribute.
C6_AttributeIsolation ==
    entry_value.done =>
        \A i \in 1..Len(entry) :
            OnlyFailure(entry, i) =>
                /\ entry_value.result.ok
                /\ entry_value.result = custom_entry_value(BuildHeader, RemoveAt(entry, i))
                /\ FromParsedOnly(entry_value.result.value, entry)

\* a snapshot was built of an unparsable attribute followed by a parsable one
C6_Witness ==
    /\ entry_value.done /\ entry_value.result.ok
    /\ Len(entry) = 2 /\ OnlyFailure(entry, 1)
    /\ Addressable(entry_value.result.value, entry[2])

\* C7: when the journal is open and the tracker waits on a drained event queue, the
\* held snapshot is the snapshot of the record as it is on disk.
C7_Convergence ==
    (pc = "watching" /\ usn_rx = <<>> /\ ~usn_closed)
    => previous_value = get_current_value

\* without a change lost between the initial read and the subscription, the held
\* snapshot of a tracker that waits on a drained queue is the one of the record
LoopConvergence ==
    (pc = "watching" /\ usn_rx = <<>> /\ ~usn_closed /\ ~missed)
    => previous_value = get_current_value

\* the documents of the sink, terminators left out
SinkDocuments ==
    LET records == SelectSeq(sink, LAMBDA tok : tok # Newline)
    IN  [i \in 1..Len(records) |-> records[i][2]]

\* the documents the output loop wrote, in the order it received them
WrittenDocuments ==
    LET written == SelectSeq(pump_log, LAMBDA r : r.outcome = "written")
    IN  [i \in 1..Len(written) |-> written[i].value]

\* C8: the tracker receives the journal events in the order they were queued; the
\* output loop receives the documents in the order they were sent and the sink
\* holds, in that order and once each, those that were serialized and written.
C8_OrderPreserved ==
    /\ Len(processed) <= Len(ev_log)
    /\ processed = Take(ev_log, Len(processed))
    /\ Len(pump_log) <= Len(tx_log)
    /\ [i \in 1..Len(pump_log) |-> pump_log[i].value] = Take(tx_log, Len(pump_log))
    /\ \A i \in 1..Len(pump_log) :
          pump_log[i].outcome = "write_failed" => i = Len(pump_log)
    /\ SinkDocuments = WrittenDocuments

\* two events were received from a queue that held both, and two different
\* documents were written
C8_Witness ==
    /\ Len(processed) = 2 /\ Len(ev_log) = 2
    /\ Len(SinkDocuments) = 2 /\ SinkDocuments[1] # SinkDocuments[2]
    /\ SinkDocuments = tx_log

RECURSIVE Framed(_)
\* every record followed by one terminator
Framed(docs) ==
    IF docs = <<>> THEN <<>>
    ELSE <<to_json_string(Head(docs)), Newline>> \o Framed(Tail(docs))

\* C9: for both sinks, the sink holds the written documents in order, each
\* followed by one record terminator.
C9_RecordTerminated == sink = Framed(WrittenDocuments)

\* at least one decimal digit, nothing else
IsDigits(m, radix) == m # <<>> /\ \A i \in 1..Len(m) : to_digit(m[i], radix) >= 0

RECURSIVE FitsU32(_, _, _)
\* the digits of m, after acc, stay within a u32
FitsU32(m, radix, acc) ==
    \/ m = <<>>
    \/ /\ CheckedMulAdd(acc, radix, to_digit(Head(m), radix)).ok
       /\ FitsU32(Tail(m), radix, CheckedMulAdd(acc, radix, to_digit(Head(m), radix)).v)

\* a u32 in the given radix: digits that fit; the plus sign that the parser of u32
\* accepts before them is allowed here too, so that only the prefix is in question
IsLiteral(m, radix) ==
    LET digits == IF m # <<>> /\ Head(m) = "+" THEN Tail(m) ELSE m
    IN  IsDigits(digits, radix) /\ FitsU32(digits, radix, U32(0, 0))

\* a decimal u32, or the prefix 0x once and then a hexadecimal u32
WellFormedMask(m) ==
    \/ IsLiteral(m, 10)
    \/ starts_with_0x(m) /\ IsLiteral(Drop(m, 2), 16)

\* C10: startup goes past the mask option only when the value given to it is a
\* decimal u32 or 0x followed by a hexadecimal u32; any other value aborts startup
\* before the listener is created.
C10_MalformedMaskFatal ==
    (mask_pc \in {"parsed", "listening"} /\ mask_in.some) => WellFormedMask(mask_in.m)


\* C11: the held snapshot is replaced only by a refresh that forwarded a document
\* with keys: after a refresh whose difference had no key, or whose send failed,
\* the held snapshot is the one held before that refresh.
C11_ReplaceOnlyAfterForward ==
    last.outcome \in {"empty", "send_failed"} => previous_value = last.previous

\* the identity the tracker is bound to: the slot and the generation of the file
BoundIdentity(e) == e.entry = entry_to_monitor /\ e.sequence = bound_seq

\* C12: the step that receives an event whose identity is not the bound identity
\* changes nothing of the tracker: it stays in watching and does not go on to
\* read the record, the held snapshot and the output queue are as before.
C12_ForeignEventFrame ==
    [][ (pc = "watching" /\ Len(processed') = Len(processed) + 1
            /\ ~BoundIdentity(processed'[Len(processed')]))
        => (pc' = "watching"
            /\ UNCHANGED <<previous_value, tx, tx_log, n_refresh, last, base>>) ]_vars

\* the worker leaves its loop in this step
TrackerStops == Subscribed /\ ~Subscribed'

\* the worker stops on the closed and drained subscription
StopsDisconnected == pc = "watching" /\ usn_closed /\ usn_rx = <<>>

\* the worker stops in a refresh before anything was compared or sent
StopsOnFailedRead ==
    pc = "refreshing" /\ UNCHANGED <<n_refresh, last, previous_value, tx, tx_log>>

\* the original statement of C13: the worker, once subscribed, stops only on the
\* closed subscription.
C13_StopsOnlyDisconnected ==
    [][ TrackerStops => StopsDisconnected ]_vars

\* C13: the worker, once subscribed, stops only on the closed and drained
\* subscription or on a refresh whose read of the record failed; a refresh that
\* read the record, its send failed or not, goes back to waiting.
C13_StopsOnlyDisconnectedOrFailedRead ==
    [][ /\ TrackerStops => (pc' = "panicked" /\ (StopsDisconnected \/ StopsOnFailedRead))
        /\ n_refresh' # n_refresh => pc' = "watching" ]_vars

\* a send failed and the worker went on; a later refresh failed to read the record
\* and the worker stopped, the subscription still open
C13_Witness ==
    /\ pc = "panicked" /\ ~usn_closed
    /\ last.outcome = "send_failed" /\ n_refresh = 1
    /\ Len(processed) = 2

\* C14: once the journal source is closed, the worker receives every event that
\* was queued, in the order it was queued, and enters the terminal state only
\* from the wait on the drained queue; in the terminal state it refreshes nothing
\* and sends nothing; and while it waits on the closed source it is never blocked:
\* it can receive a queued event or end.
C14_DrainThenDisconnected ==
    /\ [][ /\ (pc = "watching" /\ usn_closed /\ pc' = "panicked")
              => (usn_rx = <<>> /\ processed = ev_log)
           /\ pc = "panicked"
              => UNCHANGED <<pc, previous_value, tx_log, n_refresh, last, processed, cur_event>>
         ]_vars
    /\ [](processed \o usn_rx = ev_log)
    /\ []((ProcessAlive /\ pc = "watching" /\ usn_closed) => ENABLED (RecvEvent \/ Disconnected))

\* the source was closed with two events queued; the worker received both, in
\* order, refreshed for each, and then ended
C14_Witness ==
    /\ usn_closed /\ pc = "panicked"
    /\ Len(queued_at_close) = 2 /\ queued_at_close = ev_log
    /\ processed = ev_log /\ usn_rx = <<>>
    /\ n_refresh = 2

\* C15: a worker whose input queue is closed and empty ends: the tracker worker
\* that waits on the closed and drained event queue has the step that ends it, and
\* the output loop never calls recv again after recv failed on its closed and
\* drained queue.
C15_WorkersTerminate ==
    /\ (ProcessAlive /\ pc = "watching" /\ usn_closed /\ usn_rx = <<>>)
          => ENABLED Disconnected
    /\ pump_pc # "spin"

\* the snapshot of the record d
SnapshotOf(d) == custom_entry_value(HeaderOf(d), d.attrs).value

\* the events of q that pass the test Pass
Passing(q, Pass(_)) == Cardinality({i \in 1..Len(q) : Pass(q[i])})

\* one refresh that read the record: the held snapshot is the one of the record S0
\* it was read from, at most one document is sent, the difference from S0 to the
\* record S1 on disk, and S1 is held afterwards; a refresh that finds the record
\* it holds sends nothing
RefreshCoalesces ==
    n_refresh' = n_refresh + 1 =>
        /\ previous_value = SnapshotOf(base)
        /\ tx_log' \in {tx_log, Append(tx_log, get_difference_value(SnapshotOf(base),
                                                                   SnapshotOf(disk)))}
        /\ base' = disk
        /\ base = disk => tx_log' = tx_log

\* C16: the events of a burst are coalesced: the first refresh of a burst that
\* took the record from S0 to S1 sends at most the difference from S0 to S1 and
\* the later ones, finding S1 held, send nothing; and the documents sent are never
\* more than the events received that passed the filter of the loop.
C16_Coalescing ==
    /\ [][RefreshCoalesces]_vars
    /\ [](Len(tx_log) <= Passing(processed, Matches))

\* two changes were queued as two events before the first was received; the first
\* refresh sent the one document of the net change, the second sent nothing
C16_Witness ==
    /\ pc = "watching" /\ ~missed /\ ~rx_dropped
    /\ Len(ev_log) = 2 /\ processed = ev_log /\ n_refresh = 2
    /\ last.from = last.read /\ last.outcome = "empty"
    /\ tx_log = <<get_difference_value(initial_value, previous_value)>>

\* the output loop has just skipped a document it could not serialize
SkipsDocument ==
    /\ Len(pump_log') = Len(pump_log) + 1
    /\ pump_log'[Len(pump_log')].outcome = "skipped"

\* C17: the step of the output loop that cannot serialize a document writes
\* nothing and leaves the loop at its recv; the loop then takes the next document
\* of the queue, and the sink holds every document that was serialized and
\* written, those after a skipped one included, and nothing of a skipped one.
C17_SkipUnserializable ==
    /\ [][SkipsDocument => (sink' = sink /\ pump_pc' = "recv")]_vars
    /\ []((pump_pc = "recv" /\ tx # <<>>) => ENABLED PumpRecv)
    /\ [](SinkDocuments = WrittenDocuments)

\* the first document could not be serialized; the second, another one, was
\* written and is all the sink holds
C17_Witness ==
    /\ Len(pump_log) = 2
    /\ pump_log[1].outcome = "skipped" /\ pump_log[2].outcome = "written"
    /\ pump_log[1].value # pump_log[2].value
    /\ SinkDocuments = <<pump_log[2].value>>

\* C18: when the one change of the run was made between the initial read and the
\* subscription, the tracker that waits on its drained queue holds the snapshot
\* of the changed record and has sent the document of that change, if it has keys.
C18_NoStartupLoss ==
    (missed /\ changes = 1 /\ pc = "watching" /\ usn_rx = <<>> /\ ~rx_dropped)
    => /\ previous_value = SnapshotOf(disk)
       /\ ShouldSend(get_difference_value(initial_value, SnapshotOf(disk)))
             => tx_log = <<get_difference_value(initial_value, SnapshotOf(disk))>>

RECURSIVE Overlay(_, _)
\* the tree with the document laid over it: a key of the document replaces the
\* tree's value, two objects under one key are laid over each other
Overlay(tree, doc) ==
    Obj([k \in (DOMAIN tree.m) \cup (DOMAIN doc.m) |->
            IF k \notin DOMAIN doc.m THEN tree.m[k]
            ELSE IF k \in DOMAIN tree.m /\ IsObject(tree.m[k]) /\ IsObject(doc.m[k])
                 THEN Overlay(tree.m[k], doc.m[k])
                 ELSE doc.m[k]])

RECURSIVE OverlayAll(_, _)
\* the documents laid over the tree one after the other
OverlayAll(tree, docs) ==
    IF docs = <<>> THEN tree
    ELSE OverlayAll(Overlay(tree, Head(docs)), Tail(docs))

RECURSIVE AgreesOn(_, _)
\* the tree holds every path of the object held, with the same value
AgreesOn(held, tree) ==
    /\ IsObject(tree)
    /\ \A k \in DOMAIN held.m :
          /\ k \in DOMAIN tree.m
          /\ IF IsObject(held.m[k]) THEN AgreesOn(held.m[k], tree.m[k])
             ELSE tree.m[k] = held.m[k]

\* C19: while the tracker waits for an event, the initial snapshot with every
\* document sent so far laid over it, in order, holds every path of the held
\* snapshot with the value held.
C19_DeltaAccumulation ==
    pc = "watching" => AgreesOn(previous_value, OverlayAll(initial_value, tx_log))

\* the accumulation for a run whose every send succeeded
SentAccumulation ==
    (pc = "watching" /\ ~rx_dropped)
    => AgreesOn(previous_value, OverlayAll(initial_value, tx_log))

=============================================================================
